---- MODULE Spec2Model ----
(***************************************************************************)
(* Model of the meeting-availability resolver of WorkflowGenie:            *)
(* CalendarConnector.findOptimalTime and the stages it drives              *)
(* (extractCalendarIds, findAvailableSlots, findSlotsInTimeRange,          *)
(* mergeBusyPeriods, selectOptimalSlot, roundToNextQuarter,                *)
(* calculateConfidence) in src/integrations/calendar.js                    *)
(* (src/unnamed/part_002, lines 281-924).                                  *)
(*                                                                         *)
(* Instants are whole seconds since the epoch (a JavaScript Date holds     *)
(* milliseconds; every quantity the code adds is a whole number of         *)
(* seconds).  Local time is UTC: getHours, getMinutes and getDay are the   *)
(* UTC fields.  A score is kept multiplied by Hour so that the fractional  *)
(* term 50 - hoursSinceNow stays an integer; a confidence is kept          *)
(* multiplied by 10.                                                       *)
(*                                                                         *)
(* The module also models two findOptimalTime calls that share one         *)
(* connector, and the timers of WorkflowAutomation                         *)
(* (src/services/workflow-automation.js): scheduleReminders,               *)
(* scheduleFollowUp and cleanup, with time in minutes.                     *)
(***************************************************************************)
EXTENDS Integers, Sequences, FiniteSets, TLC

VARIABLES
    clock,              \* Date.now(): the wall clock
    ticks,              \* number of clock advances so far
    pc,                 \* position of the findOptimalTime call
    clients,            \* this.clients: tokens that have a cached client
    attendees,          \* argument attendees
    userToken,          \* argument userToken
    preferences,        \* argument preferences
    req,                \* the destructured preferences (defaults applied)
    calendarIds,        \* result of extractCalendarIds
    fetchCount,         \* number of freebusy.query calls issued
    busyTimes,          \* freeBusyResponse.data.calendars
    caught,             \* the error that reached the catch block
    allBusyPeriods,     \* findAvailableSlots: the collected periods, before the sort
    mergedBusyPeriods,  \* findAvailableSlots: result of mergeBusyPeriods
    feasibleSlots,      \* findAvailableSlots: availableSlots before slice(0, 20)
    availableSlots,     \* findOptimalTime: availableSlots
    nowGen,             \* the Date.now() read by findAvailableSlots
    nowSel,             \* the new Date() read by selectOptimalSlot
    optimalSlot,        \* findOptimalTime: optimalSlot
    result,             \* what the call returned or threw
    trace,              \* the stages that ran, in order
    mergePc,            \* position of a direct mergeBusyPeriods call
    mergeInput,         \* the caller's list of busy periods
    mergeSorted,        \* that list after sort((a, b) => a.start - b.start)
    mergeArg,           \* the list passed to the latest mergeBusyPeriods call
    mergeOutput,        \* the returned list
    mergeAfter,         \* the objects of the passed list after the call
    mergeFirst,         \* the result of the first call, once merged again
    connClients,        \* this.clients of a connector that serves two calls
    connClock,          \* Date.now() while the two calls run
    connTicks,          \* number of clock advances of connClock
    calls,              \* the local state of each of the two calls
    autoClock,          \* Date.now() of the WorkflowAutomation, in minutes
    config,             \* this.config: the values the automation reads
    meetingDetails,     \* the meeting the reminders are for
    timers,             \* every timer setTimeout created; the handle is the index
    scheduledReminders, \* this.scheduledReminders: reminderId -> timer handle
    followUpTasks,      \* this.followUpTasks: followUpId -> timer handle
    followUps,          \* per scheduleFollowUp call: the closure of checkStatus
    reminderCalls,      \* number of scheduleReminders calls so far
    sentReminders,      \* the slack.sendMessage calls made by sendReminder
    cleaned,            \* cleanup() has been called
    firedAfterCleanup   \* number of timer callbacks run since cleanup()

calVars == <<clock, ticks, pc, clients, attendees, userToken, preferences, req,
             calendarIds, fetchCount, busyTimes, caught, allBusyPeriods,
             mergedBusyPeriods, feasibleSlots, availableSlots, nowGen, nowSel,
             optimalSlot, result, trace>>

mergeVars == <<mergePc, mergeInput, mergeSorted, mergeArg, mergeOutput,
               mergeAfter, mergeFirst>>

pairVars == <<connClients, connClock, connTicks, calls>>

autoVars == <<autoClock, config, meetingDetails, timers, scheduledReminders,
              followUpTasks, followUps, reminderCalls, sentReminders, cleaned,
              firedAfterCleanup>>

notCalVars == <<mergeVars, pairVars, autoVars>>
notMergeVars == <<calVars, pairVars, autoVars>>
notPairVars == <<calVars, mergeVars, autoVars>>
notAutoVars == <<calVars, mergeVars, pairVars>>

vars == <<calVars, mergeVars, pairVars, autoVars>>

----------------------------------------------------------------------------
(* Units and calendar arithmetic                                           *)

Minute == 60
Hour == 60 * Minute
Day == 24 * Hour
Quarter == 15 * Minute

\* 1970-01-05T00:00:00Z, a Monday
Mon0 == 4 * Day

At(day, hour, minute) == Mon0 + day * Day + hour * Hour + minute * Minute

Max(a, b) == IF a >= b THEN a ELSE b
Min(a, b) == IF a <= b THEN a ELSE b

getHours(t) == (t \div Hour) % 24
getMinutes(t) == (t \div Minute) % 60
\* 0 = Sunday; the epoch day was a Thursday
getDay(t) == ((t \div Day) + 4) % 7

Interval(s, e) == [start |-> s, end |-> e]

----------------------------------------------------------------------------
(* roundToNextQuarter                                                      *)

roundToNextQuarter(date) ==
    LET minutes   == getMinutes(date)
        remainder == minutes % 15
    IN  IF remainder = 0
        THEN date
        ELSE (date - (date % Hour)) + (minutes + (15 - remainder)) * Minute

----------------------------------------------------------------------------
(* mergeBusyPeriods                                                        *)
(* The list holds references: merged[k] is an index into the array objs,   *)
(* and lastMerged.end = ... writes into the object both lists share.       *)

\* a merge that overwrites the end instead of keeping the later one
extendedEnd_Overwrite(lastMerged, current) == current.end

\* line 767: the new end of lastMerged
extendedEnd(lastMerged, current) == Max(lastMerged.end, current.end)

\* a merge that leaves touching periods apart
mergesInto_Strict(current, lastMerged) == current.start < lastMerged.end

\* line 766: does current merge into lastMerged?
mergesInto(current, lastMerged) == current.start <= lastMerged.end

\* a loop that compares each period with the one before it in the input
\* instead of with the last merged one
RECURSIVE MergeLoop_PreviousInput(_, _, _)
MergeLoop_PreviousInput(objs, merged, i) ==
    IF i > Len(objs)
    THEN [objs |-> objs, merged |-> merged]
    ELSE LET current == objs[i]
             lastIdx == merged[Len(merged)]
             lastMerged == objs[lastIdx]
         IN  IF current.start <= objs[i - 1].end
             THEN MergeLoop_PreviousInput([objs EXCEPT ![lastIdx].end =
                                 Max(lastMerged.end, current.end)], merged, i + 1)
             ELSE MergeLoop_PreviousInput(objs, Append(merged, i), i + 1)

\* a sort that leaves the list as it is
SortByStart_None(s) == s

RECURSIVE MergeLoop(_, _, _)
MergeLoop(objs, merged, i) ==
    IF i > Len(objs)
    THEN [objs |-> objs, merged |-> merged]
    ELSE LET current == objs[i]
             lastIdx == merged[Len(merged)]
             lastMerged == objs[lastIdx]
         IN  IF mergesInto(current, lastMerged)
             THEN MergeLoop([objs EXCEPT ![lastIdx].end =
                                 extendedEnd(lastMerged, current)], merged, i + 1)
             ELSE MergeLoop(objs, Append(merged, i), i + 1)

MergeRun(busyPeriods) ==
    IF Len(busyPeriods) = 0
    THEN [objs |-> busyPeriods, merged |-> <<>>]
    ELSE MergeLoop(busyPeriods, <<1>>, 2)

mergeBusyPeriods(busyPeriods) ==
    LET r == MergeRun(busyPeriods)
    IN  [k \in 1..Len(r.merged) |-> r.objs[r.merged[k]]]

\* Array.prototype.sort with (a, b) => a.start - b.start: stable, ascending
RECURSIVE InsertByStart(_, _)
InsertByStart(sorted, x) ==
    IF sorted = <<>> THEN <<x>>
    ELSE IF sorted[Len(sorted)].start <= x.start
         THEN Append(sorted, x)
         ELSE Append(InsertByStart(SubSeq(sorted, 1, Len(sorted) - 1), x),
                     sorted[Len(sorted)])

RECURSIVE SortByStart(_)
SortByStart(s) ==
    IF s = <<>> THEN <<>>
    ELSE InsertByStart(SortByStart(SubSeq(s, 1, Len(s) - 1)), s[Len(s)])

----------------------------------------------------------------------------
(* extractCalendarIds                                                      *)
(* An attendee is a string, or an object with an email and a login ("" is  *)
(* an absent field).  s.includes('@') is membership in AtStrings.          *)

AtStrings == {"ann@corp.com", "bob@corp.com"}
includesAt(s) == s \in AtStrings

StringAttendee(s) == [kind |-> "string", text |-> s, email |-> "", login |-> ""]
ObjectAttendee(e, l) == [kind |-> "object", text |-> "", email |-> e, login |-> l]

\* the value of `email` after the if / else-if chain; "" is null or undefined
attendeeEmail(attendee) ==
    IF attendee.kind = "string"
    THEN (IF includesAt(attendee.text) THEN attendee.text ELSE "")
    ELSE IF attendee.email # ""
         THEN attendee.email
         ELSE IF attendee.login # "" /\ includesAt(attendee.login)
              THEN attendee.login
              ELSE ""

\* a deduplication that keeps the last occurrence of each element
Dedup_KeepLast(s) ==
    LET keep == {k \in 1..Len(s) : \A l \in (k + 1)..Len(s) : s[l] # s[k]}
    IN  [i \in 1..Cardinality(keep) |->
            s[CHOOSE k \in keep : Cardinality({m \in keep : m < k}) = i - 1]]

\* [...new Set(calendarIds)]
RECURSIVE Dedup(_)
Dedup(s) ==
    IF s = <<>> THEN <<>>
    ELSE LET init == Dedup(SubSeq(s, 1, Len(s) - 1))
             x == s[Len(s)]
         IN  IF \E k \in 1..Len(init) : init[k] = x THEN init ELSE Append(init, x)

RECURSIVE CollectIds(_)
CollectIds(atts) ==
    IF atts = <<>> THEN <<>>
    ELSE LET init == CollectIds(SubSeq(atts, 1, Len(atts) - 1))
             email == attendeeEmail(atts[Len(atts)])
         IN  IF email # "" /\ includesAt(email) THEN Append(init, email) ELSE init

extractCalendarIds(atts) == Dedup(CollectIds(atts))

----------------------------------------------------------------------------
(* findSlotsInTimeRange and findAvailableSlots                             *)

\* a slot that ends one loop step after it starts, whatever the duration
slotEndOf_Step(current, durationS) == current + Quarter

\* line 741: slotEnd = new Date(current.getTime() + durationMs)
slotEndOf(current, durationS) == current + durationS

\* the test of one loop iteration of findSlotsInTimeRange at `current`
slotAccepted(current, durationS, workingHours) ==
    LET hour == getHours(current)
        slotEnd == slotEndOf(current, durationS)
    IN  /\ hour >= workingHours.start
        /\ hour < workingHours.end
        /\ getHours(slotEnd) <= workingHours.end

\* iteration k of the while loop has current = startTime + (k - 1) * 15 minutes
findSlotsInTimeRange(startTime, endTime, durationS, workingHours) ==
    LET n == IF startTime + durationS <= endTime
             THEN ((endTime - durationS - startTime) \div Quarter) + 1
             ELSE 0
        visited == [k \in 1..n |->
                      Interval(startTime + (k - 1) * Quarter,
                               slotEndOf(startTime + (k - 1) * Quarter, durationS))]
    IN  SelectSeq(visited,
                  LAMBDA s : slotAccepted(s.start, durationS, workingHours))

\* busyTimes[calendarId].busy for every calendar id, in order
RECURSIVE collectBusyPeriods(_, _)
collectBusyPeriods(ids, calendars) ==
    IF ids = <<>> THEN <<>>
    ELSE LET init == collectBusyPeriods(SubSeq(ids, 1, Len(ids) - 1), calendars)
             busyData == calendars[ids[Len(ids)]]
         IN  IF busyData.hasBusy THEN init \o busyData.busy ELSE init

\* a gap that runs up to the busy period, the buffer forgotten
gapEndBefore_NoBuffer(busyPeriod, r) == busyPeriod.start

\* line 715: the end of the gap before busyPeriod
gapEndBefore(busyPeriod, r) == busyPeriod.start - r.bufferMinutes * Minute

\* a cursor that resumes where the busy period starts
gapStartAfter_Start(busyPeriod, r) == busyPeriod.start + r.bufferMinutes * Minute

\* line 722: where the next gap starts
gapStartAfter(busyPeriod, r) == busyPeriod.end + r.bufferMinutes * Minute

\* line 709: the start of the first gap, before the rounding
firstGapStart(r, now) == Max(r.timeMin, now)

\* the for loop over mergedBusyPeriods; st = [currentTime, slots]
RECURSIVE GapLoop(_, _, _, _)
GapLoop(merged, i, st, r) ==
    IF i > Len(merged)
    THEN st
    ELSE LET busyPeriod == merged[i]
             gapStart == st.currentTime
             gapEnd == gapEndBefore(busyPeriod, r)
             slotsInGap == IF gapEnd > gapStart
                           THEN findSlotsInTimeRange(gapStart, gapEnd,
                                    r.duration * Minute, r.workingHours)
                           ELSE <<>>
         IN  GapLoop(merged, i + 1,
                     [currentTime |-> gapStartAfter(busyPeriod, r),
                      slots |-> st.slots \o slotsInGap], r)

\* availableSlots before the final slice
generateSlots(merged, r, now) ==
    LET first == roundToNextQuarter(firstGapStart(r, now))
        st == GapLoop(merged, 1, [currentTime |-> first, slots |-> <<>>], r)
        finalSlots == IF st.currentTime < r.timeMax
                      THEN findSlotsInTimeRange(st.currentTime, r.timeMax,
                               r.duration * Minute, r.workingHours)
                      ELSE <<>>
    IN  st.slots \o finalSlots

MaxSlots == 20

\* a cap that keeps the last 20 instead of the first 20
capSlots_Last(slots) == SubSeq(slots, Max(1, Len(slots) - (MaxSlots - 1)), Len(slots))

\* availableSlots.slice(0, 20)
capSlots(slots) == SubSeq(slots, 1, Min(Len(slots), MaxSlots))

----------------------------------------------------------------------------
(* selectOptimalSlot and calculateConfidence                               *)

\* The terms of the score, each multiplied by Hour.

\* a term that also rewards a slot exactly two hours away
laterTerm_AtOrAfter(slot, now) ==
    LET twoHoursFromNow == now + 2 * Hour
    IN  IF slot.start >= twoHoursFromNow THEN 100 * Hour ELSE 0

\* lines 789-791: not within the next two hours
laterTerm(slot, now) ==
    LET twoHoursFromNow == now + 2 * Hour
    IN  IF slot.start > twoHoursFromNow THEN 100 * Hour ELSE 0

\* lines 793-795: core hours
coreHoursTerm(slot) ==
    LET hour == getHours(slot.start)
    IN  IF hour >= 10 /\ hour <= 16 THEN 50 * Hour ELSE 0

\* lines 797-799: Tuesday to Thursday
midWeekTerm(slot) ==
    LET day == getDay(slot.start)
    IN  IF day >= 2 /\ day <= 4 THEN 20 * Hour ELSE 0

\* lines 801-802: Monday morning, Friday afternoon
edgeOfWeekTerm(slot) ==
    LET hour == getHours(slot.start)
        day == getDay(slot.start)
    IN  - (IF day = 1 /\ hour < 10 THEN 30 * Hour ELSE 0)
        - (IF day = 5 /\ hour > 15 THEN 30 * Hour ELSE 0)

\* lines 804-807: the sooner-slot bonus
soonerBonus(slot, now) ==
    LET sinceNow == slot.start - now    \* hoursSinceNow * Hour
    IN  IF sinceNow < 48 * Hour THEN Max(0, 50 * Hour - sinceNow) ELSE 0

\* score * Hour of one slot
slotScore(slot, now) ==
      laterTerm(slot, now)
    + coreHoursTerm(slot)
    + midWeekTerm(slot)
    + edgeOfWeekTerm(slot)
    + soonerBonus(slot, now)

\* an order in which a later element overtakes an earlier one of equal score
staysBefore_Strict(a, x) == a.score > x.score

\* the comparator (a, b) => b.score - a.score under a stable sort: a, which
\* came first, stays before x unless x scores strictly higher
staysBefore(a, x) == a.score >= x.score

\* Array.prototype.sort with (a, b) => b.score - a.score: stable, descending
RECURSIVE InsertByScore(_, _)
InsertByScore(sorted, x) ==
    IF sorted = <<>> THEN <<x>>
    ELSE IF staysBefore(sorted[Len(sorted)], x)
         THEN Append(sorted, x)
         ELSE Append(InsertByScore(SubSeq(sorted, 1, Len(sorted) - 1), x),
                     sorted[Len(sorted)])

RECURSIVE SortByScore(_)
SortByScore(s) ==
    IF s = <<>> THEN <<>>
    ELSE InsertByScore(SortByScore(SubSeq(s, 1, Len(s) - 1)), s[Len(s)])

scoredSlots(slots, now) ==
    SortByScore([k \in 1..Len(slots) |->
                    [slot |-> slots[k], score |-> slotScore(slots[k], now)]])

selectOptimalSlot(slots, now) == scoredSlots(slots, now)[1].slot

\* a selection that sorts the caller's array itself
slotsAfterSelect_SortedInPlace(slots, now) ==
    LET ranked == scoredSlots(slots, now)
    IN  [k \in 1..Len(ranked) |-> ranked[k].slot]

\* the caller's array after selectOptimalSlot: map builds a new array and
\* the sort is applied to that one
slotsAfterSelect(slots, now) == slots

\* a confidence whose two middle buckets are exchanged
calculateConfidence_Swapped(allSlots) ==
    LET totalSlots == Len(allSlots)
    IN  IF totalSlots = 1 THEN 10
        ELSE IF totalSlots <= 3 THEN 8
        ELSE IF totalSlots <= 10 THEN 9
        ELSE 7

\* confidence * 10
calculateConfidence(allSlots) ==
    LET totalSlots == Len(allSlots)
    IN  IF totalSlots = 1 THEN 10
        ELSE IF totalSlots <= 3 THEN 9
        ELSE IF totalSlots <= 10 THEN 8
        ELSE 7

----------------------------------------------------------------------------
(* Errors and results                                                      *)
(* An error value is its constructor name, its message and its `code`      *)
(* property (0: none).                                                     *)

ErrorValue(n, m, c) == [name |-> n, message |-> m, code |-> c]

TokenError == ErrorValue("Error", "Google Calendar token required for API access", 0)
NoEmailError == ErrorValue("Error", "No valid email addresses found for attendees", 0)
NoSlotsError == ErrorValue("Error", "No available time slots found for all attendees", 0)

\* what calendar.freebusy.query may reject with
ProviderErrors ==
    { ErrorValue("GaxiosError", "Forbidden", 403),
      ErrorValue("Error", "socket hang up", 0) }

\* a catch block that drops the message of the error it caught
wrapError_NoMessage(error) == ErrorValue("Error", "Calendar scheduling failed", 0)

\* the catch block: throw new Error(`Calendar scheduling failed: ${error.message}`)
wrapError(error) ==
    ErrorValue("Error", "Calendar scheduling failed: " \o error.message, 0)

NoError == ErrorValue("", "", 0)
NoSlot == Interval(0, 0)

NoResult ==
    [kind |-> "none", error |-> NoError, start |-> 0, end |-> 0, duration |-> 0,
     attendees |-> <<>>, alternatives |-> <<>>, confidence |-> 0]

Thrown(e) == [NoResult EXCEPT !.kind = "thrown", !.error = e]

\* a result whose alternatives start at the first candidate
Returned_AlternativesFromFirst(slot, r, ids, slots) ==
    [kind |-> "returned", error |-> NoError,
     start |-> slot.start, end |-> slot.end, duration |-> r.duration,
     attendees |-> ids,
     alternatives |-> SubSeq(slots, 1, Min(Len(slots), 3)),
     confidence |-> calculateConfidence(slots)]

Returned(slot, r, ids, slots) ==
    [kind |-> "returned", error |-> NoError,
     start |-> slot.start, end |-> slot.end, duration |-> r.duration,
     attendees |-> ids,
     alternatives |-> SubSeq(slots, 2, Min(Len(slots), 4)),
     confidence |-> calculateConfidence(slots)]

----------------------------------------------------------------------------
(* The inputs of one findOptimalTime call                                  *)

MaxTicks == 2
TickStep == 2 * Hour + 90

Clocks == {At(0, 7, 0), At(0, 12, 7) + 30}

Tokens == {"", "token-1"}

AttendeeLists ==
    { <<>>,
      <<StringAttendee("carol")>>,
      <<StringAttendee("ann@corp.com")>>,
      <<StringAttendee("bob@corp.com"), ObjectAttendee("ann@corp.com", ""),
        StringAttendee("bob@corp.com")>>,
      <<ObjectAttendee("", "bob@corp.com"), StringAttendee("bob@corp.com"),
        ObjectAttendee("carol", "ann@corp.com")>> }

Durations == {0, 30, 60}
Buffers == {0, 10, 15}
WorkingHoursSet == {[start |-> 9, end |-> 17], [start |-> 17, end |-> 9]}
Windows ==
    { <<At(0, 8, 0), At(0, 18, 0)>>,
      <<At(0, 13, 0), At(1, 12, 0)>>,
      <<At(2, 13, 0), At(2, 18, 0)>>,
      <<At(4, 15, 30), At(4, 16, 30)>>,
      <<At(0, 18, 0), At(0, 8, 0)>> }

AllGiven == {"duration", "timeMin", "timeMax", "workingHours", "bufferMinutes"}

PreferenceSet ==
    { [given |-> AllGiven, duration |-> d, timeMin |-> w[1], timeMax |-> w[2],
       workingHours |-> h, bufferMinutes |-> b] :
         d \in Durations, w \in Windows, h \in WorkingHoursSet, b \in Buffers }
    \cup
    { [given |-> {}, duration |-> 0, timeMin |-> 0, timeMax |-> 0,
       workingHours |-> [start |-> 0, end |-> 0], bufferMinutes |-> 0] }

\* const { duration = 30, timeMin = new Date(), timeMax = ..., ... } = preferences
destructure(p, now) ==
    [duration      |-> IF "duration" \in p.given THEN p.duration ELSE 30,
     timeMin       |-> IF "timeMin" \in p.given THEN p.timeMin ELSE now,
     timeMax       |-> IF "timeMax" \in p.given THEN p.timeMax ELSE now + 7 * Day,
     workingHours  |-> IF "workingHours" \in p.given THEN p.workingHours
                       ELSE [start |-> 9, end |-> 17],
     bufferMinutes |-> IF "bufferMinutes" \in p.given THEN p.bufferMinutes ELSE 15]

NoReq == destructure([given |-> {}], 0)

Busy(list) == [hasBusy |-> TRUE, busy |-> list]

\* one calendar's entry in freeBusyResponse.data.calendars
CalendarEntries ==
    { Busy(<<>>),
      [hasBusy |-> FALSE, busy |-> <<>>],
      Busy(<<Interval(At(0, 14, 0), At(0, 15, 0))>>),
      Busy(<<Interval(At(0, 15, 0), At(0, 16, 0))>>),
      Busy(<<Interval(At(0, 5, 0), At(0, 6, 0))>>),
      Busy(<<Interval(At(1, 13, 0), At(1, 14, 0))>>),
      Busy(<<Interval(At(0, 8, 0), At(1, 12, 0))>>),
      Busy(<<Interval(At(0, 16, 30), At(0, 17, 30)),
             Interval(At(0, 10, 5), At(0, 10, 40))>>) }

SeqToSet(s) == {s[k] : k \in 1..Len(s)}

Responses(ids) == [SeqToSet(ids) -> CalendarEntries]

----------------------------------------------------------------------------
(* Two findOptimalTime calls on one CalendarConnector.  this.clients maps  *)
(* a token to its OAuth2 client; each call keeps its own locals.           *)

CallIds == {1, 2}

NoClient == [access_token |-> ""]

\* new google.auth.OAuth2() with setCredentials({ access_token: userToken })
NewClient(token) == [access_token |-> token]

\* a cache that hands out whatever client it holds, whoever asks
getClient_AnyCached(cache, token) ==
    IF DOMAIN cache # {}
    THEN [auth |-> cache[CHOOSE k \in DOMAIN cache : TRUE], clients |-> cache]
    ELSE [auth |-> NewClient(token),
          clients |-> cache @@ (token :> NewClient(token))]

\* getClient for a non-empty token: the client it returns and the cache it
\* leaves behind
getClient(cache, token) ==
    IF token \in DOMAIN cache
    THEN [auth |-> cache[token], clients |-> cache]
    ELSE [auth |-> NewClient(token),
          clients |-> cache @@ (token :> NewClient(token))]

NoCall ==
    [pc |-> "off", attendees |-> <<>>, userToken |-> "",
     preferences |-> [given |-> {}], auth |-> NoClient, req |-> NoReq,
     calendarIds |-> <<>>, rejected |-> NoError, busyTimes |-> <<>>,
     availableSlots |-> <<>>, nowBegin |-> 0, nowGen |-> 0, nowSel |-> 0,
     result |-> NoResult]

PairIdle ==
    /\ connClients = <<>>
    /\ connClock = 0
    /\ connTicks = 0
    /\ calls = [i \in CallIds |-> NoCall]

----------------------------------------------------------------------------
(* WorkflowAutomation (src/services/workflow-automation.js): reminders and *)
(* follow-up checks driven by timers.  Time is in minutes.                 *)

NoMeeting == [startTime |-> 0, meetingEndTime |-> 0, channelId |-> ""]

NoConfig == [reminderTimes |-> <<>>, checkInterval |-> 0, maxFollowUps |-> 0]

AutoIdle ==
    /\ autoClock = 0
    /\ config = NoConfig
    /\ meetingDetails = NoMeeting
    /\ timers = <<>>
    /\ scheduledReminders = <<>>
    /\ followUpTasks = <<>>
    /\ followUps = <<>>
    /\ reminderCalls = 0
    /\ sentReminders = <<>>
    /\ cleaned = FALSE
    /\ firedAfterCleanup = 0

----------------------------------------------------------------------------
(* findOptimalTime as a state machine.  The call suspends once, at the     *)
(* await of calendar.freebusy.query; the clock is read at the destructuring*)
(* defaults, by findAvailableSlots and by selectOptimalSlot, and may       *)
(* advance between those reads.                                            *)

MergeIdle ==
    /\ mergePc = "off"
    /\ mergeInput = <<>>
    /\ mergeSorted = <<>>
    /\ mergeArg = <<>>
    /\ mergeOutput = <<>>
    /\ mergeAfter = <<>>
    /\ mergeFirst = <<>>

Init ==
    /\ clock \in Clocks
    /\ ticks = 0
    /\ pc = "idle"
    /\ clients = {}
    /\ attendees \in AttendeeLists
    /\ userToken \in Tokens
    /\ preferences \in PreferenceSet
    /\ req = NoReq
    /\ calendarIds = <<>>
    /\ fetchCount = 0
    /\ busyTimes = <<>>
    /\ caught = NoError
    /\ allBusyPeriods = <<>>
    /\ mergedBusyPeriods = <<>>
    /\ feasibleSlots = <<>>
    /\ availableSlots = <<>>
    /\ nowGen = 0
    /\ nowSel = 0
    /\ optimalSlot = NoSlot
    /\ result = NoResult
    /\ trace = <<>>
    /\ MergeIdle
    /\ PairIdle
    /\ AutoIdle

\* time passes while the call is in progress
Tick ==
    /\ pc \in {"idle", "awaiting", "selecting"}
    /\ ticks < MaxTicks
    /\ clock' = clock + TickStep
    /\ ticks' = ticks + 1
    /\ UNCHANGED <<pc, clients, attendees, userToken, preferences, req,
                   calendarIds, fetchCount, busyTimes, caught, allBusyPeriods,
                   mergedBusyPeriods, feasibleSlots, availableSlots, nowGen,
                   nowSel, optimalSlot, result, trace>>
    /\ UNCHANGED notCalVars

\* findOptimalTime, lines 315-352: from the call to the await of the query,
\* or to the catch block when getClient or the calendar-id check throws
Begin ==
    /\ pc = "idle"
    /\ IF userToken = ""
       THEN /\ caught' = TokenError
            /\ result' = Thrown(wrapError(TokenError))
            /\ pc' = "done"
            /\ UNCHANGED <<clients, req, calendarIds, fetchCount, trace>>
       ELSE /\ clients' = clients \cup {userToken}
            /\ req' = destructure(preferences, clock)
            /\ calendarIds' = extractCalendarIds(attendees)
            /\ IF Len(extractCalendarIds(attendees)) = 0
               THEN /\ caught' = NoEmailError
                    /\ result' = Thrown(wrapError(NoEmailError))
                    /\ pc' = "done"
                    /\ UNCHANGED <<fetchCount, trace>>
               ELSE /\ fetchCount' = fetchCount + 1
                    /\ trace' = Append(trace, "fetch")
                    /\ pc' = "awaiting"
                    /\ UNCHANGED <<caught, result>>
    /\ UNCHANGED <<clock, ticks, attendees, userToken, preferences, busyTimes,
                   allBusyPeriods, mergedBusyPeriods, feasibleSlots,
                   availableSlots, nowGen, nowSel, optimalSlot>>
    /\ UNCHANGED notCalVars

\* a rejection after which the query is issued once more
FetchReject_Retry ==
    /\ pc = "awaiting"
    /\ fetchCount' = fetchCount + 1
    /\ trace' = Append(trace, "fetch")
    /\ UNCHANGED <<clock, ticks, pc, clients, attendees, userToken, preferences,
                   req, calendarIds, busyTimes, caught, allBusyPeriods,
                   mergedBusyPeriods, feasibleSlots, availableSlots, nowGen,
                   nowSel, optimalSlot, result>>
    /\ UNCHANGED notCalVars

\* the query rejects: lines 393-403
FetchReject ==
    /\ pc = "awaiting"
    /\ \E e \in ProviderErrors :
          /\ caught' = e
          /\ result' = Thrown(wrapError(e))
    /\ pc' = "done"
    /\ UNCHANGED <<clock, ticks, clients, attendees, userToken, preferences, req,
                   calendarIds, fetchCount, busyTimes, allBusyPeriods,
                   mergedBusyPeriods, feasibleSlots, availableSlots, nowGen,
                   nowSel, optimalSlot, trace>>
    /\ UNCHANGED notCalVars

\* the query resolves: lines 354-369 with findAvailableSlots, lines 686-731
FetchResolve ==
    /\ pc = "awaiting"
    /\ \E calendars \in Responses(calendarIds) :
          LET collected == collectBusyPeriods(calendarIds, calendars)
              merged == mergeBusyPeriods(SortByStart(collected))
              slots == generateSlots(merged, req, clock)
          IN  /\ busyTimes' = calendars
              /\ allBusyPeriods' = collected
              /\ mergedBusyPeriods' = merged
              /\ feasibleSlots' = slots
              /\ availableSlots' = capSlots(slots)
              /\ IF Len(capSlots(slots)) = 0
                 THEN /\ caught' = NoSlotsError
                      /\ result' = Thrown(wrapError(NoSlotsError))
                      /\ pc' = "done"
                 ELSE /\ pc' = "selecting"
                      /\ UNCHANGED <<caught, result>>
    /\ nowGen' = clock
    /\ trace' = trace \o <<"merge", "generate">>
    /\ UNCHANGED <<clock, ticks, clients, attendees, userToken, preferences, req,
                   calendarIds, fetchCount, nowSel, optimalSlot>>
    /\ UNCHANGED notCalVars

\* lines 371-391 with selectOptimalSlot, lines 776-814
SelectAndReturn ==
    /\ pc = "selecting"
    /\ nowSel' = clock
    /\ optimalSlot' = selectOptimalSlot(availableSlots, clock)
    /\ availableSlots' = slotsAfterSelect(availableSlots, clock)
    /\ result' = Returned(selectOptimalSlot(availableSlots, clock), req,
                          calendarIds, slotsAfterSelect(availableSlots, clock))
    /\ trace' = Append(trace, "score")
    /\ pc' = "done"
    /\ UNCHANGED <<clock, ticks, clients, attendees, userToken, preferences, req,
                   calendarIds, fetchCount, busyTimes, caught, allBusyPeriods,
                   mergedBusyPeriods, feasibleSlots, nowGen>>
    /\ UNCHANGED notCalVars

Next ==
    \/ Tick
    \/ Begin
    \/ FetchReject
    \/ FetchResolve
    \/ SelectAndReturn

Spec == Init /\ [][Next]_vars

----------------------------------------------------------------------------
(* The merge stage called on its own: sort by start, then mergeBusyPeriods *)

MaxBusyPeriods == 3
MaxInstant == 5

GridIntervals ==
    {iv \in [start : 0..MaxInstant, end : 0..MaxInstant] : iv.start < iv.end}

BusyLists == UNION {[1..n -> GridIntervals] : n \in 0..MaxBusyPeriods}

CalendarIdle ==
    /\ clock = 0
    /\ ticks = 0
    /\ pc = "off"
    /\ clients = {}
    /\ attendees = <<>>
    /\ userToken = ""
    /\ preferences = [given |-> {}]
    /\ req = NoReq
    /\ calendarIds = <<>>
    /\ fetchCount = 0
    /\ busyTimes = <<>>
    /\ caught = NoError
    /\ allBusyPeriods = <<>>
    /\ mergedBusyPeriods = <<>>
    /\ feasibleSlots = <<>>
    /\ availableSlots = <<>>
    /\ nowGen = 0
    /\ nowSel = 0
    /\ optimalSlot = NoSlot
    /\ result = NoResult
    /\ trace = <<>>

InitMerge ==
    /\ CalendarIdle
    /\ PairIdle
    /\ AutoIdle
    /\ mergePc = "input"
    /\ mergeInput \in BusyLists
    /\ mergeSorted = <<>>
    /\ mergeArg = <<>>
    /\ mergeOutput = <<>>
    /\ mergeAfter = <<>>
    /\ mergeFirst = <<>>

\* allBusyPeriods.sort((a, b) => a.start - b.start), line 705
SortPeriods ==
    /\ mergePc = "input"
    /\ mergeSorted' = SortByStart(mergeInput)
    /\ mergePc' = "sorted"
    /\ UNCHANGED <<mergeInput, mergeArg, mergeOutput, mergeAfter, mergeFirst>>
    /\ UNCHANGED notMergeVars

\* this.mergeBusyPeriods(allBusyPeriods), line 707
MergeSorted ==
    /\ mergePc = "sorted"
    /\ mergeArg' = mergeSorted
    /\ mergeOutput' = mergeBusyPeriods(mergeSorted)
    /\ mergeAfter' = MergeRun(mergeSorted).objs
    /\ mergePc' = "merged"
    /\ UNCHANGED <<mergeInput, mergeSorted, mergeFirst>>
    /\ UNCHANGED notMergeVars

\* calendar.mergeBusyPeriods(busyPeriods) on the caller's list as it is, the
\* way testAvailabilityAnalysis calls it
MergeDirect ==
    /\ mergePc = "input"
    /\ mergeArg' = mergeInput
    /\ mergeOutput' = mergeBusyPeriods(mergeInput)
    /\ mergeAfter' = MergeRun(mergeInput).objs
    /\ mergePc' = "mergedDirect"
    /\ UNCHANGED <<mergeInput, mergeSorted, mergeFirst>>
    /\ UNCHANGED notMergeVars

\* mergeBusyPeriods called on its own result
MergeAgain ==
    /\ mergePc \in {"merged", "mergedDirect"}
    /\ mergeFirst' = mergeOutput
    /\ mergeArg' = mergeOutput
    /\ mergeOutput' = mergeBusyPeriods(mergeOutput)
    /\ mergeAfter' = MergeRun(mergeOutput).objs
    /\ mergePc' = "remerged"
    /\ UNCHANGED <<mergeInput, mergeSorted>>
    /\ UNCHANGED notMergeVars

NextMerge ==
    \/ SortPeriods
    \/ MergeSorted
    \/ MergeDirect
    \/ MergeAgain

SpecMerge == InitMerge /\ [][NextMerge]_vars

----------------------------------------------------------------------------
(* Two calls interleaved at the await of the query                         *)

PairTokens == {"", "token-1", "token-2"}

PairAttendeeLists ==
    { <<StringAttendee("carol")>>,
      <<ObjectAttendee("ann@corp.com", ""), StringAttendee("bob@corp.com")>> }

PairPreferenceSet ==
    { [given |-> AllGiven, duration |-> 30, timeMin |-> At(0, 8, 0),
       timeMax |-> At(0, 18, 0), workingHours |-> [start |-> 9, end |-> 17],
       bufferMinutes |-> 15],
      [given |-> {"duration", "timeMax", "bufferMinutes"}, duration |-> 60,
       timeMin |-> 0, timeMax |-> At(0, 18, 0),
       workingHours |-> [start |-> 0, end |-> 0], bufferMinutes |-> 0] }

\* the free/busy data an account may read: the data belongs to the
\* credentials the query is made with
ProviderView(access_token) ==
    IF access_token = "token-1"
    THEN [id \in AtStrings |->
            IF id = "ann@corp.com"
            THEN Busy(<<Interval(At(0, 14, 0), At(0, 15, 0))>>)
            ELSE Busy(<<Interval(At(0, 15, 0), At(0, 16, 0))>>)]
    ELSE [id \in AtStrings |->
            IF id = "ann@corp.com"
            THEN Busy(<<Interval(At(0, 9, 0), At(0, 12, 0))>>)
            ELSE [hasBusy |-> FALSE, busy |-> <<>>]]

\* freeBusyResponse.data.calendars of a query made with auth for ids
QueryResponse(auth, ids) ==
    [id \in SeqToSet(ids) |-> ProviderView(auth.access_token)[id]]

\* findAvailableSlots: lines 686-731
findAvailableSlots(calendars, ids, r, now) ==
    capSlots(generateSlots(
        mergeBusyPeriods(SortByStart(collectBusyPeriods(ids, calendars))), r, now))

InitPair ==
    /\ CalendarIdle
    /\ MergeIdle
    /\ AutoIdle
    /\ connClients = <<>>
    /\ connClock = At(0, 7, 0)
    /\ connTicks = 0
    /\ calls \in [CallIds ->
          { [NoCall EXCEPT !.pc = "idle", !.attendees = a, !.userToken = u,
                           !.preferences = p] :
               a \in PairAttendeeLists, u \in PairTokens, p \in PairPreferenceSet }]

PairTick ==
    /\ connTicks < MaxTicks
    /\ \E i \in CallIds : calls[i].pc # "done"
    /\ connClock' = connClock + TickStep
    /\ connTicks' = connTicks + 1
    /\ UNCHANGED <<connClients, calls>>
    /\ UNCHANGED notPairVars

\* lines 315-352 of call i
PairBegin(i) ==
    LET c == calls[i]
        got == getClient(connClients, c.userToken)
        ids == extractCalendarIds(c.attendees)
    IN  /\ c.pc = "idle"
        /\ IF c.userToken = ""
           THEN /\ calls' = [calls EXCEPT ![i] =
                       [c EXCEPT !.pc = "done", !.nowBegin = connClock,
                                 !.result = Thrown(wrapError(TokenError))]]
                /\ UNCHANGED connClients
           ELSE /\ connClients' = got.clients
                /\ calls' = [calls EXCEPT ![i] =
                       [c EXCEPT !.auth = got.auth,
                                 !.nowBegin = connClock,
                                 !.req = destructure(c.preferences, connClock),
                                 !.calendarIds = ids,
                                 !.pc = IF Len(ids) = 0 THEN "done" ELSE "awaiting",
                                 !.result = IF Len(ids) = 0
                                            THEN Thrown(wrapError(NoEmailError))
                                            ELSE NoResult]]
        /\ UNCHANGED <<connClock, connTicks>>
        /\ UNCHANGED notPairVars

\* the query of call i rejects: lines 393-403
PairReject(i) ==
    LET c == calls[i]
    IN  /\ c.pc = "awaiting"
        /\ \E e \in ProviderErrors :
              calls' = [calls EXCEPT ![i] =
                  [c EXCEPT !.pc = "done", !.rejected = e,
                            !.result = Thrown(wrapError(e))]]
        /\ UNCHANGED <<connClients, connClock, connTicks>>
        /\ UNCHANGED notPairVars

\* the query of call i resolves: lines 354-369
PairResolve(i) ==
    LET c == calls[i]
        calendars == QueryResponse(c.auth, c.calendarIds)
        slots == findAvailableSlots(calendars, c.calendarIds, c.req, connClock)
    IN  /\ c.pc = "awaiting"
        /\ calls' = [calls EXCEPT ![i] =
               [c EXCEPT !.busyTimes = calendars,
                         !.availableSlots = slots,
                         !.nowGen = connClock,
                         !.pc = IF Len(slots) = 0 THEN "done" ELSE "selecting",
                         !.result = IF Len(slots) = 0
                                    THEN Thrown(wrapError(NoSlotsError))
                                    ELSE NoResult]]
        /\ UNCHANGED <<connClients, connClock, connTicks>>
        /\ UNCHANGED notPairVars

\* lines 371-391 of call i
PairSelect(i) ==
    LET c == calls[i]
    IN  /\ c.pc = "selecting"
        /\ calls' = [calls EXCEPT ![i] =
               [c EXCEPT !.nowSel = connClock,
                         !.pc = "done",
                         !.result = Returned(
                             selectOptimalSlot(c.availableSlots, connClock),
                             c.req, c.calendarIds, c.availableSlots)]]
        /\ UNCHANGED <<connClients, connClock, connTicks>>
        /\ UNCHANGED notPairVars

NextPair ==
    \/ PairTick
    \/ \E i \in CallIds : PairBegin(i)
    \/ \E i \in CallIds : PairReject(i)
    \/ \E i \in CallIds : PairResolve(i)
    \/ \E i \in CallIds : PairSelect(i)

SpecPair == InitPair /\ [][NextPair]_vars

----------------------------------------------------------------------------
(* WorkflowAutomation: scheduleReminders, sendReminder, scheduleFollowUp   *)
(* with its checkStatus closure, and cleanup.  notifyReadyForMerge and     *)
(* handleStalePR send messages of other kinds and touch no timer, counter  *)
(* or map; they leave the state recorded here as it is.                    *)

\* how often scheduleReminders and scheduleFollowUp are called
MaxReminderCalls == 2
MaxFollowUpCalls == 1

MeetingId == "meeting-123"
PrNumber == "123"

\* defaultWorkflowConfig, and the reminderTimes of the test suite
Configs ==
    { [reminderTimes |-> rt, checkInterval |-> 24, maxFollowUps |-> 3] :
         rt \in {<<60, 15>>, <<5>>} }

\* a meeting of 30 minutes that starts 1, 30 or 90 minutes from the start
Meetings ==
    { [startTime |-> s, meetingEndTime |-> s + 30, channelId |-> "channel-123"] :
         s \in {1, 30, 90} }

\* what setTimeout creates: the callback's kind and arguments, and when it
\* is due
Timer(kind, minutes, task, due) ==
    [kind |-> kind, minutes |-> minutes, task |-> task, due |-> due,
     state |-> "pending"]

\* Map.prototype.set
MapSet(map, key, value) ==
    [x \in DOMAIN map \cup {key} |-> IF x = key THEN value ELSE map[x]]

\* `reminder-${meetingId}-${minutes}`
reminderId(meetingId, minutes) == <<"reminder", meetingId, minutes>>

\* `followup-${reviewDetails.prNumber}-${Date.now()}`
followUpId(prNumber, now) == <<"followup", prNumber, now>>

\* line 22: reminderTime > new Date()
reminderStillAhead(reminderTime, now) == reminderTime > now

\* the for loop of scheduleReminders; st = [timers, map]
RECURSIVE ReminderLoop(_, _, _, _, _)
ReminderLoop(reminderTimes, i, st, details, now) ==
    IF i > Len(reminderTimes)
    THEN st
    ELSE LET minutes == reminderTimes[i]
             reminderTime == details.startTime - minutes
         IN  IF reminderStillAhead(reminderTime, now)
             THEN ReminderLoop(reminderTimes, i + 1,
                      [timers |-> Append(st.timers,
                                     Timer("reminder", minutes, 0,
                                           now + (reminderTime - now))),
                       map |-> MapSet(st.map, reminderId(MeetingId, minutes),
                                      Len(st.timers) + 1)],
                      details, now)
             ELSE ReminderLoop(reminderTimes, i + 1, st, details, now)

\* a follow-up is sent once more than maxFollowUps allows
mayFollowUp_OneMore(followUpCount, maxFollowUps) == followUpCount <= maxFollowUps + 1

\* line 110: followUpCount <= maxFollowUps
mayFollowUp(followUpCount, maxFollowUps) == followUpCount <= maxFollowUps

\* the closure of one scheduleFollowUp call, with what it has done so far
NewFollowUp ==
    [followUpCount |-> 0, sentFollowUps |-> 0, escalations |-> 0,
     ended |-> FALSE]

\* what one run of checkStatus meets: whether getPullRequest and getDocument
\* resolved, whether the notes hold a pending item, and whether
\* sendFollowUpMessage resolved
CheckOutcomes ==
    { [fetched |-> FALSE, pending |-> FALSE, delivered |-> FALSE],
      [fetched |-> TRUE, pending |-> TRUE, delivered |-> TRUE],
      [fetched |-> TRUE, pending |-> TRUE, delivered |-> FALSE],
      [fetched |-> TRUE, pending |-> FALSE, delivered |-> TRUE] }

\* checkStatus, lines 89-144: the closure after the run, and whether the next
\* check was scheduled
checkStatus(f, o, cfg) ==
    IF ~o.fetched
    THEN [f |-> f, next |-> FALSE]
    ELSE IF o.pending
    THEN IF mayFollowUp(f.followUpCount + 1, cfg.maxFollowUps)
         THEN IF o.delivered
              THEN [f |-> [f EXCEPT !.followUpCount = @ + 1,
                                    !.sentFollowUps = @ + 1],
                    next |-> TRUE]
              ELSE [f |-> [f EXCEPT !.followUpCount = @ + 1],
                    next |-> FALSE]
         ELSE [f |-> [f EXCEPT !.followUpCount = @ + 1,
                               !.escalations = @ + 1, !.ended = TRUE],
               next |-> FALSE]
    ELSE [f |-> [f EXCEPT !.ended = TRUE], next |-> FALSE]

Pending(h) == timers[h].state = "pending"
Due(h) == Pending(h) /\ timers[h].due <= autoClock

\* clearTimeout on every handle the map holds
ClearAll(tm, map) ==
    [h \in 1..Len(tm) |->
        IF tm[h].state = "pending" /\ (\E k \in DOMAIN map : map[k] = h)
        THEN [tm[h] EXCEPT !.state = "cleared"]
        ELSE tm[h]]

InitAuto ==
    /\ CalendarIdle
    /\ MergeIdle
    /\ PairIdle
    /\ autoClock = 0
    /\ config \in Configs
    /\ meetingDetails \in Meetings
    /\ timers = <<>>
    /\ scheduledReminders = <<>>
    /\ followUpTasks = <<>>
    /\ followUps = <<>>
    /\ reminderCalls = 0
    /\ sentReminders = <<>>
    /\ cleaned = FALSE
    /\ firedAfterCleanup = 0

\* time passes up to the next timer or to the start or end of the meeting;
\* a timer that is due runs first
AutoAdvance ==
    LET later == {timers[h].due : h \in {x \in 1..Len(timers) : Pending(x)}}
                 \cup {meetingDetails.startTime, meetingDetails.meetingEndTime}
        ahead == {x \in later : x > autoClock}
    IN  /\ ahead # {}
        /\ \A h \in 1..Len(timers) : ~Due(h)
        /\ autoClock' = CHOOSE x \in ahead : \A y \in ahead : x <= y
        /\ UNCHANGED <<config, meetingDetails, timers, scheduledReminders,
                       followUpTasks, followUps, reminderCalls, sentReminders,
                       cleaned, firedAfterCleanup>>
        /\ UNCHANGED notAutoVars

\* scheduleReminders(meetingId, meetingDetails, ...), lines 15-38, called for
\* a meeting that has not started yet
ScheduleReminders ==
    LET st == ReminderLoop(config.reminderTimes, 1,
                           [timers |-> timers, map |-> scheduledReminders],
                           meetingDetails, autoClock)
    IN  /\ ~cleaned
        /\ reminderCalls < MaxReminderCalls
        /\ autoClock < meetingDetails.startTime
        /\ timers' = st.timers
        /\ scheduledReminders' = st.map
        /\ reminderCalls' = reminderCalls + 1
        /\ UNCHANGED <<autoClock, config, meetingDetails, followUpTasks,
                       followUps, sentReminders, cleaned, firedAfterCleanup>>
        /\ UNCHANGED notAutoVars

\* a reminder timer runs: sendReminder, lines 40-82, calls
\* slack.sendMessage; whether the send resolves or rejects changes nothing
FireReminder ==
    \E h \in 1..Len(timers) :
        /\ Due(h)
        /\ timers[h].kind = "reminder"
        /\ timers' = [timers EXCEPT ![h].state = "fired"]
        /\ sentReminders' = Append(sentReminders,
                                   [channelId |-> meetingDetails.channelId,
                                    minutes |-> timers[h].minutes,
                                    at |-> autoClock])
        /\ firedAfterCleanup' = IF cleaned THEN firedAfterCleanup + 1
                                ELSE firedAfterCleanup
        /\ UNCHANGED <<autoClock, config, meetingDetails, scheduledReminders,
                       followUpTasks, followUps, reminderCalls, cleaned>>
        /\ UNCHANGED notAutoVars

\* scheduleFollowUp(reviewDetails, ...), lines 84-160
ScheduleFollowUp ==
    LET delay == Max(meetingDetails.meetingEndTime - autoClock, 0)
    IN  /\ ~cleaned
        /\ Len(followUps) < MaxFollowUpCalls
        /\ followUps' = Append(followUps, NewFollowUp)
        /\ timers' = Append(timers,
                            Timer("check", 0, Len(followUps) + 1, autoClock + delay))
        /\ followUpTasks' = MapSet(followUpTasks, followUpId(PrNumber, autoClock),
                                   Len(timers) + 1)
        /\ UNCHANGED <<autoClock, config, meetingDetails, scheduledReminders,
                       reminderCalls, sentReminders, cleaned, firedAfterCleanup>>
        /\ UNCHANGED notAutoVars

\* a check timer runs checkStatus; the next check is a timer no map holds
FireCheck ==
    \E h \in 1..Len(timers) :
        /\ Due(h)
        /\ timers[h].kind = "check"
        /\ \E o \in CheckOutcomes :
              LET k == timers[h].task
                  r == checkStatus(followUps[k], o, config)
                  fired == [timers EXCEPT ![h].state = "fired"]
              IN  /\ followUps' = [followUps EXCEPT ![k] = r.f]
                  /\ timers' = IF r.next
                               THEN Append(fired,
                                        Timer("check", 0, k,
                                              autoClock + config.checkInterval * 60))
                               ELSE fired
        /\ firedAfterCleanup' = IF cleaned THEN firedAfterCleanup + 1
                                ELSE firedAfterCleanup
        /\ UNCHANGED <<autoClock, config, meetingDetails, scheduledReminders,
                       followUpTasks, reminderCalls, sentReminders, cleaned>>
        /\ UNCHANGED notAutoVars

\* cleanup(), lines 354-366
Cleanup ==
    /\ ~cleaned
    /\ timers' = ClearAll(ClearAll(timers, scheduledReminders), followUpTasks)
    /\ scheduledReminders' = <<>>
    /\ followUpTasks' = <<>>
    /\ cleaned' = TRUE
    /\ UNCHANGED <<autoClock, config, meetingDetails, followUps, reminderCalls,
                   sentReminders, firedAfterCleanup>>
    /\ UNCHANGED notAutoVars

NextAuto ==
    \/ AutoAdvance
    \/ ScheduleReminders
    \/ FireReminder
    \/ ScheduleFollowUp
    \/ FireCheck
    \/ Cleanup

SpecAuto == InitAuto /\ [][NextAuto]_vars

----------------------------------------------------------------------------
(* Properties                                                              *)

Generated == pc \in {"selecting", "done"} /\ "generate" \in SeqToSet(trace)

ReturnedOk == pc = "done" /\ result.kind = "returned"

\* the invariants of SchedulingPreferences hold of the destructured request
ValidRequest ==
    /\ req.duration > 0
    /\ req.timeMin < req.timeMax
    /\ req.workingHours.start < req.workingHours.end

BufferS == req.bufferMinutes * Minute

Clear(c, b) == c.end <= b.start - BufferS \/ c.start >= b.end + BufferS

ScenarioA == Interval(At(0, 14, 0), At(0, 15, 0))
ScenarioB == Interval(At(0, 15, 0), At(0, 16, 0))

\* C1: no candidate returned by findAvailableSlots intersects a busy interval
\* (merged, or as fetched) widened by the buffer on both sides; with A busy
\* 14:00-15:00, B busy 15:00-16:00 and a buffer of 15 minutes no candidate
\* intersects [13:45, 16:15).
C1_NoCandidateInBufferedBusy ==
    /\ \A i \in 1..Len(availableSlots) :
          /\ \A j \in 1..Len(mergedBusyPeriods) :
                Clear(availableSlots[i], mergedBusyPeriods[j])
          /\ \A j \in 1..Len(allBusyPeriods) :
                Clear(availableSlots[i], allBusyPeriods[j])
    /\ ( /\ {ScenarioA, ScenarioB} \subseteq SeqToSet(allBusyPeriods)
         /\ req.bufferMinutes = 15 )
       => \A i \in 1..Len(availableSlots) :
             \/ availableSlots[i].end <= At(0, 13, 45)
             \/ availableSlots[i].start >= At(0, 16, 15)

\* the scenario of C1, with a candidate on each side of the widened interval
C1_Witness ==
    /\ Generated
    /\ ValidRequest
    /\ req.bufferMinutes = 15
    /\ SeqToSet(allBusyPeriods) = {ScenarioA, ScenarioB}
    /\ \E i \in 1..Len(availableSlots) : availableSlots[i].end = At(0, 13, 45)
    /\ \E i \in 1..Len(availableSlots) : availableSlots[i].start = At(0, 16, 15)

\* the instants of the grid that a list of intervals covers
Covered(list) ==
    {t \in 0..MaxInstant : \E k \in 1..Len(list) :
                               list[k].start <= t /\ t < list[k].end}

\* C2: sorting by start and then merging gives a list sorted by start,
\* pairwise disjoint, that covers exactly the instants the input covers.
C2_MergeSortedDisjointSameUnion ==
    mergePc = "merged" =>
        /\ \A i, j \in 1..Len(mergeOutput) :
              i < j => /\ mergeOutput[i].start <= mergeOutput[j].start
                       /\ mergeOutput[i].end <= mergeOutput[j].start
        /\ \A k \in 1..Len(mergeOutput) : mergeOutput[k].start < mergeOutput[k].end
        /\ Covered(mergeOutput) = Covered(mergeInput)

\* an unsorted input with a nested interval and a separate one
C2_Witness ==
    /\ mergePc = "merged"
    /\ mergeInput # mergeSorted
    /\ Len(mergeOutput) = 2
    /\ Len(mergeInput) = 3
    /\ \E i, j \in 1..Len(mergeInput) :
          /\ mergeInput[i].start < mergeInput[j].start
          /\ mergeInput[j].end < mergeInput[i].end

\* the alternatives by score rank: positions 2 to 4 of the score-sorted list
RankedAlternatives ==
    LET ranked == scoredSlots(availableSlots, nowSel)
    IN  [k \in 1..(Min(Len(ranked), 4) - 1) |-> ranked[k + 1].slot]

\* C3: the alternatives of the result are the candidates ranked 2nd to 4th
\* by descending score, in that order.
C3_AlternativesByScoreRank ==
    (ReturnedOk /\ ValidRequest) => result.alternatives = RankedAlternatives

ScoreAt(i) == slotScore(availableSlots[i], nowSel)

\* C4: the chosen slot has the maximum score of the candidate list and is the
\* first candidate of the list with that score.
C4_ChosenIsFirstMaximum ==
    ReturnedOk =>
        /\ result.start = optimalSlot.start
        /\ result.end = optimalSlot.end
        /\ \E i \in 1..Len(availableSlots) :
              /\ availableSlots[i] = optimalSlot
              /\ \A j \in 1..Len(availableSlots) : ScoreAt(j) <= ScoreAt(i)
              /\ \A j \in 1..(i - 1) : ScoreAt(j) < ScoreAt(i)

\* several candidates share the maximum, and one of them has a lower-scored
\* candidate before it
C4_Witness ==
    /\ ReturnedOk
    /\ \E i, j \in 1..Len(availableSlots) :
          /\ i < j
          /\ ScoreAt(i) = ScoreAt(j)
          /\ \A k \in 1..Len(availableSlots) : ScoreAt(k) <= ScoreAt(i)

\* C5: every candidate begins at or after startHour:00 and finishes at or
\* before endHour:00 of the day it begins on.
C5_WithinWorkingHours ==
    ValidRequest =>
        \A i \in 1..Len(availableSlots) :
            LET c == availableSlots[i]
                midnight == c.start - (c.start % Day)
            IN  /\ c.start >= midnight + req.workingHours.start * Hour
                /\ c.end <= midnight + req.workingHours.end * Hour

\* C6: every candidate starts at or after max(windowStart, now) and ends at
\* or before windowEnd.
C6_WithinWindow ==
    (Generated /\ ValidRequest) =>
        \A i \in 1..Len(availableSlots) :
            /\ availableSlots[i].start >= Max(req.timeMin, nowGen)
            /\ availableSlots[i].end <= req.timeMax

ZeroCandidates == pc = "done" /\ Generated /\ Len(availableSlots) = 0

\* what the call throws when it fails before the query or when the query fails
OtherFailures == {wrapError(e) : e \in ProviderErrors \cup {NoEmailError, TokenError}}

C8_ProviderErrorVerbatim ==
    (pc = "done" /\ caught \in ProviderErrors) =>
        /\ result.kind = "thrown"
        /\ result.error = caught
        /\ fetchCount = 1

\* the malformed inputs of C9
Malformed ==
    \/ "duration" \in preferences.given /\ preferences.duration <= 0
    \/ /\ {"timeMin", "timeMax"} \subseteq preferences.given
       /\ preferences.timeMin >= preferences.timeMax
    \/ /\ "workingHours" \in preferences.given
       /\ preferences.workingHours.start >= preferences.workingHours.end
    \/ Len(extractCalendarIds(attendees)) = 0

\* C9: a call with malformed input fails before the query is issued and
\* before any merging, generation or scoring.
C9_MalformedFailsBeforeFetch ==
    (pc # "off" /\ Malformed) =>
        /\ fetchCount = 0
        /\ trace = <<>>
        /\ pc = "done" => result.kind = "thrown"

\* C10: findAvailableSlots returns at most 20 candidates, in strictly
\* ascending order of start; they are candidates of the uncapped generation,
\* all of them when there are at most 20, and otherwise exactly 20, each
\* earlier than every candidate that was dropped.
C10_FirstTwentyChronological ==
    Generated =>
        /\ Len(availableSlots) = Min(Len(feasibleSlots), MaxSlots)
        /\ \A i, j \in 1..Len(availableSlots) :
              i < j => availableSlots[i].start < availableSlots[j].start
        /\ SeqToSet(availableSlots) \subseteq SeqToSet(feasibleSlots)
        /\ \A d \in SeqToSet(feasibleSlots) \ SeqToSet(availableSlots) :
              \A i \in 1..Len(availableSlots) : availableSlots[i].start < d.start

\* more than 20 candidates were generated, across a busy interval
C10_Witness ==
    /\ Generated
    /\ ValidRequest
    /\ Len(feasibleSlots) > MaxSlots
    /\ Len(mergedBusyPeriods) > 0
    /\ \E i \in 1..Len(availableSlots) :
          availableSlots[i].start > mergedBusyPeriods[1].end

\* C11: every candidate starts exactly on a 15-minute boundary: minutes in
\* {0, 15, 30, 45}, seconds zero.
C11_StartsOnQuarter ==
    (Generated /\ ValidRequest) =>
        \A i \in 1..Len(availableSlots) :
            /\ getMinutes(availableSlots[i].start) \in {0, 15, 30, 45}
            /\ availableSlots[i].start % Minute = 0

\* C12: every candidate, and the chosen slot of the result, lasts exactly the
\* requested duration.
C12_ExactDuration ==
    /\ \A i \in 1..Len(availableSlots) :
          availableSlots[i].end - availableSlots[i].start = req.duration * Minute
    /\ \A i \in 1..Len(feasibleSlots) :
          feasibleSlots[i].end - feasibleSlots[i].start = req.duration * Minute
    /\ ReturnedOk =>
          /\ result.end - result.start = req.duration * Minute
          /\ result.duration = req.duration

\* a one-hour meeting was scheduled after a busy period
C12_Witness ==
    /\ ReturnedOk
    /\ req.duration = 60
    /\ Len(mergedBusyPeriods) > 0
    /\ result.start >= mergedBusyPeriods[1].end

\* C13: merging the result of mergeBusyPeriods again returns the same list,
\* whatever the order of the first input.
C13_MergeIdempotent ==
    mergePc = "remerged" => mergeOutput = mergeFirst

\* a first call that did merge periods, on an unsorted list
C13_Witness ==
    /\ mergePc = "remerged"
    /\ Len(mergeFirst) >= 2
    /\ Len(mergeFirst) < Len(mergeInput)

\* C14: consecutive intervals of the merged timeline are strictly separated,
\* no two share a start, and input periods that touch or start together lie
\* in one merged interval; [1, 2) and [2, 3) merge to the single [1, 3).
C14_StrictlySeparated ==
    mergePc = "merged" =>
        /\ \A k \in 1..(Len(mergeOutput) - 1) :
              mergeOutput[k].end < mergeOutput[k + 1].start
        /\ \A i, j \in 1..Len(mergeOutput) :
              i # j => mergeOutput[i].start # mergeOutput[j].start
        /\ \A i, j \in 1..Len(mergeInput) :
              (mergeInput[i].end = mergeInput[j].start
                  \/ mergeInput[i].start = mergeInput[j].start)
              => \E k \in 1..Len(mergeOutput) :
                    /\ mergeOutput[k].start <= Min(mergeInput[i].start, mergeInput[j].start)
                    /\ mergeOutput[k].end >= Max(mergeInput[i].end, mergeInput[j].end)
        /\ SeqToSet(mergeInput) = {Interval(1, 2), Interval(2, 3)}
              => mergeOutput = <<Interval(1, 3)>>

\* two touching periods, given later one first, and a separate third
C14_Witness ==
    /\ mergePc = "merged"
    /\ mergeInput = <<Interval(2, 3), Interval(1, 2), Interval(4, 5)>>
    /\ mergeOutput = <<Interval(1, 3), Interval(4, 5)>>

\* the lists that hold the elements of s in some order
Reorderings(s) ==
    {[k \in 1..Len(s) |-> s[f[k]]] : f \in Permutations(1..Len(s))}

\* C15 as claimed: mergeBusyPeriods returns the same timeline for every
\* order of its input.
C15_MergeAnyOrder ==
    mergePc = "mergedDirect" =>
        \A p \in Reorderings(mergeInput) : mergeBusyPeriods(p) = mergeOutput

\* C15 as amended: the merge stage, which sorts by start before it calls
\* mergeBusyPeriods, returns the same timeline for every order of its input.
C15_SortedMergeAnyOrder ==
    mergePc = "merged" =>
        \A p \in Reorderings(mergeInput) :
            mergeBusyPeriods(SortByStart(p)) = mergeOutput

\* an unsorted input on which mergeBusyPeriods alone gives another timeline
C15_Witness ==
    /\ mergePc = "merged"
    /\ mergeInput # mergeSorted
    /\ mergeBusyPeriods(mergeInput) # mergeOutput
    /\ Len(mergeOutput) >= 2

\* C16: mergeBusyPeriods leaves the objects of the list it was given as they
\* were.
C16_InputUnchanged ==
    mergePc \in {"merged", "mergedDirect", "remerged"} => mergeAfter = mergeArg

\* the confidence table of C17, times 10
ConfidenceBucket(n) ==
    CASE n = 1 -> 10
      [] n \in 2..3 -> 9
      [] n \in 4..10 -> 8
      [] OTHER -> 7

\* C17: the confidence is 1.0 for one candidate, 0.9 for 2 to 3, 0.8 for 4 to
\* 10 and 0.7 beyond; it does not increase with the number of candidates, and
\* the chosen slot is the one selectOptimalSlot picks from the candidates.
C17_ConfidenceByCount ==
    /\ Generated =>
          /\ \A n \in 1..Len(feasibleSlots) :
                calculateConfidence(SubSeq(feasibleSlots, 1, n)) = ConfidenceBucket(n)
          /\ \A n \in 1..(Len(feasibleSlots) - 1) :
                calculateConfidence(SubSeq(feasibleSlots, 1, n + 1))
                   <= calculateConfidence(SubSeq(feasibleSlots, 1, n))
    /\ ReturnedOk =>
          /\ result.confidence = ConfidenceBucket(Len(availableSlots))
          /\ Interval(result.start, result.end)
                = selectOptimalSlot(availableSlots, nowSel)

\* a result with confidence 0.8
C17_Witness ==
    /\ ReturnedOk
    /\ Len(availableSlots) \in 4..10
    /\ result.confidence = 8

\* C18: with exactly one feasible candidate the result is that candidate,
\* with confidence 1.0 and no alternatives.
C18_SingleCandidate ==
    (ReturnedOk /\ Len(feasibleSlots) = 1) =>
        /\ result.start = feasibleSlots[1].start
        /\ result.end = feasibleSlots[1].end
        /\ result.confidence = 10
        /\ result.alternatives = <<>>

C18_Witness ==
    /\ ReturnedOk
    /\ ValidRequest
    /\ Len(feasibleSlots) = 1

\* C19: a candidate receives the core-hours term exactly when the hour of its
\* start is 10, 11, 12, 13, 14 or 15.
C19_CoreHoursHalfOpen ==
    (ReturnedOk /\ ValidRequest) =>
        \A i \in 1..Len(availableSlots) :
            (coreHoursTerm(availableSlots[i]) = 50 * Hour)
               <=> (getHours(availableSlots[i].start) \in 10..15)

\* C20: the sooner-slot bonus of a candidate that starts h hours after now is
\* between 0 and 50, is 50 * (48 - h) / 48 for 0 <= h < 48, and is 0 from
\* h = 48 on.
C20_SoonerBonusLinear ==
    (ReturnedOk /\ ValidRequest) =>
        \A i \in 1..Len(availableSlots) :
            LET sinceNow == availableSlots[i].start - nowSel
                bonus == soonerBonus(availableSlots[i], nowSel)
            IN  /\ bonus >= 0
                /\ bonus <= 50 * Hour
                /\ sinceNow >= 48 * Hour => bonus = 0
                /\ (sinceNow >= 0 /\ sinceNow < 48 * Hour)
                      => 48 * bonus = 50 * (48 * Hour - sinceNow)

\* the day of the week of an instant, counted from the Monday Mon0
Weekday(t) ==
    LET names == <<"Mon", "Tue", "Wed", "Thu", "Fri", "Sat", "Sun">>
    IN  names[(((t - Mon0) \div Day) % 7) + 1]

\* the three fixed terms of C21 for a slot that starts at t, times Hour
FixedTerms(t, now) ==
      (IF t - now > 2 * Hour THEN 100 * Hour ELSE 0)
    + (IF Weekday(t) \in {"Tue", "Wed", "Thu"} THEN 20 * Hour ELSE 0)
    - (IF \/ Weekday(t) = "Mon" /\ getHours(t) < 10
          \/ Weekday(t) = "Fri" /\ getHours(t) > 15
       THEN 30 * Hour ELSE 0)

\* C21: the score of a candidate is +100 exactly when it starts more than two
\* hours after now, +20 exactly on Tuesday to Thursday, -30 exactly on Monday
\* before 10 or Friday after 15, plus the core-hours term and the sooner
\* bonus; it depends on the start and on now only, not on the end of the
\* slot, on its position in the list or on the other candidates.
C21_ScoreIsSumOfTerms ==
    ReturnedOk =>
        LET ranked == scoredSlots(availableSlots, nowSel)
        IN  /\ Len(ranked) = Len(availableSlots)
            /\ \A k \in 1..Len(ranked) :
                  LET s == ranked[k].slot
                  IN  /\ s \in SeqToSet(availableSlots)
                      /\ ranked[k].score =
                            FixedTerms(s.start, nowSel) + coreHoursTerm(s)
                               + soonerBonus(s, nowSel)
                      /\ ranked[k].score =
                            scoredSlots(<<Interval(s.start, s.start)>>, nowSel)[1].score

\* Monday candidates before and after 10:00, one of them exactly two hours
\* after now
C21_Witness ==
    /\ ReturnedOk
    /\ \E i, j \in 1..Len(availableSlots) :
          /\ availableSlots[i].start = nowSel + 2 * Hour
          /\ Weekday(availableSlots[i].start) = "Mon"
          /\ getHours(availableSlots[i].start) < 10
          /\ getHours(availableSlots[j].start) >= 10

\* Friday candidates before and after 16:00
FridayCandidates ==
    /\ ReturnedOk
    /\ \E i, j \in 1..Len(availableSlots) :
          /\ Weekday(availableSlots[i].start) = "Fri"
          /\ getHours(availableSlots[i].start) = 15
          /\ Weekday(availableSlots[j].start) = "Fri"
          /\ getHours(availableSlots[j].start) = 16

\* the merged timeline is one busy interval that covers the whole window
WholeWindowBusy ==
    /\ Generated
    /\ Len(mergedBusyPeriods) = 1
    /\ mergedBusyPeriods[1].start <= req.timeMin
    /\ mergedBusyPeriods[1].end >= req.timeMax

\* C22: when a single busy interval covers the whole window,
\* findAvailableSlots returns no candidate, whatever the duration, the
\* working hours and the buffer, and findOptimalTime throws the
\* no-availability error.
C22_WholeWindowBusyNoSlot ==
    WholeWindowBusy =>
        /\ feasibleSlots = <<>>
        /\ availableSlots = <<>>
        /\ pc = "done"
        /\ caught = NoSlotsError
        /\ result = Thrown(wrapError(NoSlotsError))
        /\ optimalSlot = NoSlot

\* a valid request without buffer whose window starts, or ends, exactly
\* where the busy interval does
C22_Witness ==
    /\ WholeWindowBusy
    /\ ValidRequest
    /\ req.bufferMinutes = 0
    /\ Len(allBusyPeriods) = 1
    /\ \/ mergedBusyPeriods[1].start = req.timeMin
       \/ mergedBusyPeriods[1].end = req.timeMax

\* no stage after the fetch has left anything behind
NoStageRan ==
    /\ busyTimes = <<>>
    /\ allBusyPeriods = <<>>
    /\ mergedBusyPeriods = <<>>
    /\ feasibleSlots = <<>>
    /\ availableSlots = <<>>
    /\ optimalSlot = NoSlot
    /\ nowGen = 0
    /\ nowSel = 0

\* C23: a call with a valid participant issues the query exactly once;
\* merging, generation and scoring run in that order and only after the query
\* has resolved with the busy data of every calendar id; when the query
\* fails none of them runs and the query is not issued again.
C23_FetchOnceThenStages ==
    /\ fetchCount <= 1
    /\ (pc \in {"awaiting", "selecting", "done"} /\ userToken # "" /\ calendarIds # <<>>)
          => fetchCount = 1
    /\ \E n \in 0..4 : trace = SubSeq(<<"fetch", "merge", "generate", "score">>, 1, n)
    /\ pc = "awaiting" => (trace = <<"fetch">> /\ NoStageRan)
    /\ "merge" \in SeqToSet(trace) =>
          /\ DOMAIN busyTimes = SeqToSet(calendarIds)
          /\ allBusyPeriods = collectBusyPeriods(calendarIds, busyTimes)
    /\ (pc = "done" /\ caught \in ProviderErrors) =>
          /\ trace = <<"fetch">>
          /\ NoStageRan
          /\ fetchCount = 1
          /\ result.kind = "thrown"

\* the query of a call with two calendar ids failed, after the clock moved
C23_Witness ==
    /\ pc = "done"
    /\ caught \in ProviderErrors
    /\ Len(calendarIds) = 2
    /\ fetchCount = 1
    /\ ticks > 0

\* what a call with these arguments returns or throws on a connector of its
\* own, given the clock it read and the outcome of its query
AloneResult(c) ==
    IF c.userToken = "" THEN Thrown(wrapError(TokenError))
    ELSE LET ids == extractCalendarIds(c.attendees)
             r == destructure(c.preferences, c.nowBegin)
             calendars == QueryResponse(NewClient(c.userToken), ids)
             slots == findAvailableSlots(calendars, ids, r, c.nowGen)
         IN  IF Len(ids) = 0 THEN Thrown(wrapError(NoEmailError))
             ELSE IF c.rejected # NoError THEN Thrown(wrapError(c.rejected))
             ELSE IF Len(slots) = 0 THEN Thrown(wrapError(NoSlotsError))
             ELSE Returned(selectOptimalSlot(slots, c.nowSel), r, ids, slots)

\* C24: of two calls interleaved on one connector, each returns or throws
\* what it does alone with the same arguments, busy data and clock, and each
\* works on the busy data and the candidates of its own query.
C24_CallsIndependent ==
    \A i \in CallIds :
        LET c == calls[i]
        IN  /\ c.pc = "done" => c.result = AloneResult(c)
            /\ c.pc \in {"awaiting", "selecting"} =>
                  c.auth = NewClient(c.userToken)
            /\ c.busyTimes # <<>> =>
                  /\ c.busyTimes =
                        QueryResponse(NewClient(c.userToken), c.calendarIds)
                  /\ c.availableSlots =
                        findAvailableSlots(c.busyTimes, c.calendarIds, c.req, c.nowGen)

\* both calls were past their await at the same time, with different tokens,
\* and ended with different results
C24_Witness ==
    /\ calls[1].pc = "done"
    /\ calls[2].pc = "done"
    /\ calls[1].userToken # calls[2].userToken
    /\ calls[1].result.kind = "returned"
    /\ calls[2].result.kind = "returned"
    /\ calls[1].attendees = calls[2].attendees
    /\ calls[1].preferences = calls[2].preferences
    /\ calls[1].result # calls[2].result
    /\ calls[2].nowBegin < calls[1].nowGen
    /\ calls[1].nowBegin < calls[2].nowGen

\* no step changes the local state of both calls
OneCallPerStep ==
    [][\A i \in CallIds :
          calls'[i] # calls[i] => \A j \in CallIds \ {i} : calls'[j] = calls[j]]_vars

\* C25: in a successful result the chosen slot is not among the
\* alternatives, which are at most 3, pairwise distinct, and candidates of
\* the candidate list.
C25_ChosenNotAlternative ==
    (ReturnedOk /\ ValidRequest) =>
        /\ \A k \in 1..Len(result.alternatives) :
              result.alternatives[k] # Interval(result.start, result.end)
        /\ Len(result.alternatives) <= 3
        /\ \A k, l \in 1..Len(result.alternatives) :
              k # l => result.alternatives[k] # result.alternatives[l]
        /\ SeqToSet(result.alternatives) \subseteq SeqToSet(availableSlots)

\* C26: the chosen start and end are those of a candidate of the capped
\* list, selectOptimalSlot leaves that list as findAvailableSlots returned
\* it, and the list is strictly increasing by start.
C26_ChosenFromUnchangedList ==
    ReturnedOk =>
        /\ \E i \in 1..Len(availableSlots) :
              /\ availableSlots[i].start = result.start
              /\ availableSlots[i].end = result.end
        /\ availableSlots = capSlots(feasibleSlots)
        /\ Len(availableSlots) <= MaxSlots
        /\ \A i \in 1..(Len(availableSlots) - 1) :
              availableSlots[i].start < availableSlots[i + 1].start

\* more than 20 candidates were generated and the chosen one is not the
\* first of the list
C26_Witness ==
    /\ ReturnedOk
    /\ ValidRequest
    /\ Len(feasibleSlots) > MaxSlots
    /\ result.start > availableSlots[1].start
    /\ result.start < availableSlots[Len(availableSlots)].start

\* the identifier of an attendee: the string itself, else the email of the
\* object, else its login
Identifier(a) ==
    IF a.kind = "string" THEN a.text
    ELSE IF a.email # "" THEN a.email ELSE a.login

\* the position of the first attendee with identifier id
FirstOccurrence(id) ==
    CHOOSE k \in 1..Len(attendees) :
        /\ Identifier(attendees[k]) = id
        /\ \A l \in 1..(k - 1) : Identifier(attendees[l]) # id

Extracted == pc \in {"awaiting", "selecting", "done"} /\ userToken # ""

\* C27: extractCalendarIds returns, without duplicates and in the order of
\* first occurrence, exactly the identifiers of the attendees that contain
\* an '@'; when there is none the call fails before the query is issued.
C27_CalendarIdsFirstOccurrence ==
    Extracted =>
        /\ calendarIds = extractCalendarIds(attendees)
        /\ \A i, j \in 1..Len(calendarIds) :
              i # j => calendarIds[i] # calendarIds[j]
        /\ SeqToSet(calendarIds) =
              {Identifier(attendees[k]) : k \in 1..Len(attendees)} \cap AtStrings
        /\ \A i, j \in 1..Len(calendarIds) :
              i < j => FirstOccurrence(calendarIds[i]) < FirstOccurrence(calendarIds[j])
        /\ calendarIds = <<>> =>
              /\ pc = "done"
              /\ result = Thrown(wrapError(NoEmailError))
              /\ fetchCount = 0
              /\ trace = <<>>
              /\ busyTimes = <<>>

\* an identifier that occurs again after another one
C27_Witness ==
    /\ Extracted
    /\ Len(calendarIds) = 2
    /\ Len(attendees) = 3
    /\ Identifier(attendees[1]) = Identifier(attendees[3])
    /\ calendarIds[1] = Identifier(attendees[1])

\* no attendee has an identifier with an '@'
NoValidAttendee ==
    /\ Extracted
    /\ attendees # <<>>
    /\ calendarIds = <<>>
    /\ pc = "done"

\* the reminder messages naming m minutes, sent to the channel of the
\* meeting before it starts
RemindersNaming(m) ==
    {i \in 1..Len(sentReminders) :
        /\ sentReminders[i].minutes = m
        /\ sentReminders[i].channelId = meetingDetails.channelId
        /\ sentReminders[i].at < meetingDetails.startTime}

\* scheduleReminders was called once, nothing was cleaned up, and time has
\* reached the start of the meeting with no timer left to run
RemindersDue ==
    /\ reminderCalls = 1
    /\ ~cleaned
    /\ autoClock >= meetingDetails.startTime
    /\ \A h \in 1..Len(timers) : ~Due(h)

\* C28: after scheduleReminders, by the time the meeting starts one reminder
\* naming m minutes has been sent to its channel, before the start, for every
\* configured reminder time m.
C28_EveryReminderSent ==
    RemindersDue =>
        \A i \in 1..Len(config.reminderTimes) :
            Cardinality(RemindersNaming(config.reminderTimes[i])) = 1

\* a meeting far enough ahead: both reminders of the default configuration
\* were sent
BothRemindersSent ==
    /\ RemindersDue
    /\ config.reminderTimes = <<60, 15>>
    /\ Cardinality(RemindersNaming(60)) = 1
    /\ Cardinality(RemindersNaming(15)) = 1

\* the pending check timers of follow-up task k
PendingChecks(k) ==
    {h \in 1..Len(timers) :
        Pending(h) /\ timers[h].kind = "check" /\ timers[h].task = k}

\* C29: a follow-up task sends at most maxFollowUps follow-up messages,
\* escalates at most once and only after maxFollowUps messages, and has no
\* check scheduled after the escalation or after a check that found no
\* pending item.
C29_FollowUpsBounded ==
    \A k \in 1..Len(followUps) :
        LET f == followUps[k]
        IN  /\ f.sentFollowUps <= config.maxFollowUps
            /\ f.escalations <= 1
            /\ f.escalations = 1 => f.sentFollowUps = config.maxFollowUps
            /\ f.ended => PendingChecks(k) = {}
            /\ Cardinality(PendingChecks(k)) <= 1

\* a task that sent maxFollowUps messages and then escalated
C29_Witness ==
    /\ Len(followUps) = 1
    /\ followUps[1].escalations = 1
    /\ followUps[1].sentFollowUps = config.maxFollowUps
    /\ followUps[1].followUpCount = config.maxFollowUps + 1

\* C30: after cleanup no timer created by scheduleReminders or
\* scheduleFollowUp is pending, the next checks of a follow-up task and the
\* timers of a reminder registered twice included, no timer callback runs any
\* more, and both maps are empty.
C30_CleanupCancelsEverything ==
    cleaned =>
        /\ \A h \in 1..Len(timers) : ~Pending(h)
        /\ firedAfterCleanup = 0
        /\ DOMAIN scheduledReminders = {}
        /\ DOMAIN followUpTasks = {}

\* cleanup cancelled pending timers of both kinds
CleanupCancelled ==
    /\ cleaned
    /\ \E h \in 1..Len(timers) :
          timers[h].state = "cleared" /\ timers[h].kind = "reminder"
    /\ \E h \in 1..Len(timers) :
          timers[h].state = "cleared" /\ timers[h].kind = "check"
    /\ \A h \in 1..Len(timers) : ~Pending(h)

\* a check ran after cleanup
CheckRanAfterCleanup ==
    /\ cleaned
    /\ firedAfterCleanup > 0
    /\ \E h \in 1..Len(timers) :
          timers[h].state = "fired" /\ timers[h].kind = "check"
                /\ timers[h].due > meetingDetails.meetingEndTime

====
